---- MODULE Spec2Model ----
(***************************************************************************)
(* Morse converter (src/morse_converter.py): the Codebook, the encoders,   *)
(* the encoder chain, the waveform synthesis and the run of main().        *)
(*                                                                         *)
(* A Python string is a sequence of one-character strings.  An             *)
(* AudioSegment is the sequence of the segments it was concatenated from.  *)
(***************************************************************************)
EXTENDS Integers, Sequences, FiniteSets, TLC

VARIABLES
    pc,          \* position of the run / of the pure-function harness
    configFile,  \* what is at the --config path
    config,      \* the dict load_config returned
    argText,     \* --text, or NoArg
    text,        \* the text to convert
    encoders,    \* EncoderChain.encoders
    morse,       \* the string the chain returned (encode)
    decoded,     \* the string the chain returned (decode)
    audio,       \* the AudioSegment generate_morse_audio returned
    outFile,     \* content of the file at the output path
    stdout,      \* messages printed, in order
    exitStatus,  \* process exit status, or Running
    unhandled    \* the exception that escaped main, or NoException

vars == <<pc, configFile, config, argText, text, encoders, morse, decoded,
          audio, outFile, stdout, exitStatus, unhandled>>

----------------------------------------------------------------------------
(* Bounds *)

MaxTextLen == 4

MaxMorseLen == 4

MaxRunTextLen == 3

----------------------------------------------------------------------------
(* Strings *)

RECURSIVE Concat(_)
Concat(ss) == IF ss = <<>> THEN <<>> ELSE Head(ss) \o Concat(Tail(ss))

\* sep.join(parts)
RECURSIVE Join(_, _)
Join(sep, parts) ==
    IF parts = <<>> THEN <<>>
    ELSE IF Len(parts) = 1 THEN Head(parts)
    ELSE Head(parts) \o sep \o Join(sep, Tail(parts))

\* s.replace(a, b) for one-character a and b
Replace(s, a, b) == [i \in 1..Len(s) |-> IF s[i] = a THEN b ELSE s[i]]

\* str.split() with no argument: the maximal runs of non-whitespace
Whitespace == {" ", "\t", "\n", "\r"}

RECURSIVE SplitFrom(_, _)
SplitFrom(s, cur) ==
    IF s = <<>> THEN (IF cur = <<>> THEN <<>> ELSE <<cur>>)
    ELSE IF Head(s) \in Whitespace
         THEN (IF cur = <<>> THEN <<>> ELSE <<cur>>) \o SplitFrom(Tail(s), <<>>)
         ELSE SplitFrom(Tail(s), Append(cur, Head(s)))

Split(s) == SplitFrom(s, <<>>)

\* All sequences over S of length at most n
SeqsUpTo(S, n) == UNION {[1..k -> S] : k \in 0..n}

\* char.upper() on the ASCII letters; every other character of the model's
\* alphabets is its own uppercase
UpperOf ==
    [c \in {"a","b","c","d","e","f","g","h","i","j","k","l","m",
            "n","o","p","q","r","s","t","u","v","w","x","y","z"} |->
        CASE c = "a" -> "A" [] c = "b" -> "B" [] c = "c" -> "C" [] c = "d" -> "D"
          [] c = "e" -> "E" [] c = "f" -> "F" [] c = "g" -> "G" [] c = "h" -> "H"
          [] c = "i" -> "I" [] c = "j" -> "J" [] c = "k" -> "K" [] c = "l" -> "L"
          [] c = "m" -> "M" [] c = "n" -> "N" [] c = "o" -> "O" [] c = "p" -> "P"
          [] c = "q" -> "Q" [] c = "r" -> "R" [] c = "s" -> "S" [] c = "t" -> "T"
          [] c = "u" -> "U" [] c = "v" -> "V" [] c = "w" -> "W" [] c = "x" -> "X"
          [] c = "y" -> "Y" [] c = "z" -> "Z"]

Upper(c) == IF c \in DOMAIN UpperOf THEN UpperOf[c] ELSE c

----------------------------------------------------------------------------
(* Codebook *)

MORSE_CODE_DICT ==
    ("A" :> <<".","-">>) @@ ("B" :> <<"-",".",".",".">>) @@
    ("C" :> <<"-",".","-",".">>) @@ ("D" :> <<"-",".",".">>) @@
    ("E" :> <<".">>) @@ ("F" :> <<".",".","-",".">>) @@
    ("G" :> <<"-","-",".">>) @@ ("H" :> <<".",".",".",".">>) @@
    ("I" :> <<".",".">>) @@ ("J" :> <<".","-","-","-">>) @@
    ("K" :> <<"-",".","-">>) @@ ("L" :> <<".","-",".",".">>) @@
    ("M" :> <<"-","-">>) @@ ("N" :> <<"-",".">>) @@
    ("O" :> <<"-","-","-">>) @@ ("P" :> <<".","-","-",".">>) @@
    ("Q" :> <<"-","-",".","-">>) @@ ("R" :> <<".","-",".">>) @@
    ("S" :> <<".",".",".">>) @@ ("T" :> <<"-">>) @@
    ("U" :> <<".",".","-">>) @@ ("V" :> <<".",".",".","-">>) @@
    ("W" :> <<".","-","-">>) @@ ("X" :> <<"-",".",".","-">>) @@
    ("Y" :> <<"-",".","-","-">>) @@ ("Z" :> <<"-","-",".",".">>) @@
    ("0" :> <<"-","-","-","-","-">>) @@ ("1" :> <<".","-","-","-","-">>) @@
    ("2" :> <<".",".","-","-","-">>) @@ ("3" :> <<".",".",".","-","-">>) @@
    ("4" :> <<".",".",".",".","-">>) @@ ("5" :> <<".",".",".",".",".">>) @@
    ("6" :> <<"-",".",".",".",".">>) @@ ("7" :> <<"-","-",".",".",".">>) @@
    ("8" :> <<"-","-","-",".",".">>) @@ ("9" :> <<"-","-","-","-",".">>) @@
    (" " :> <<"/">>)

\* MORSE_CODE_DICT.get(key, '')
DictGet(key) ==
    IF key \in DOMAIN MORSE_CODE_DICT THEN MORSE_CODE_DICT[key] ELSE <<>>

\* reverse_dict = {v: k for k, v in MORSE_CODE_DICT.items()}; reverse_dict.get(code, '')
\* (the codes are pairwise different, so no key is overwritten)
ReverseGet(code) ==
    IF \E k \in DOMAIN MORSE_CODE_DICT : MORSE_CODE_DICT[k] = code
    THEN <<CHOOSE k \in DOMAIN MORSE_CODE_DICT : MORSE_CODE_DICT[k] = code>>
    ELSE <<>>

----------------------------------------------------------------------------
(* Encoders *)

\* MorseEncoder.encode with the case folding left out
MorseEncodeNoUpper(t) == Join(<<" ">>, [i \in 1..Len(t) |-> DictGet(t[i])])

\* MorseEncoder.encode
MorseEncode(t) == Join(<<" ">>, [i \in 1..Len(t) |-> DictGet(Upper(t[i]))])

\* MorseEncoder.decode
MorseDecode(m) ==
    LET codes == Split(m)
    IN  Concat([i \in 1..Len(codes) |-> ReverseGet(codes[i])])

\* SubstitutionCipher.encode with the last replace left out
SubstitutionEncodeNoRestore(m) == Replace(Replace(m, ".", "X"), "-", ".")

\* SubstitutionCipher.encode
SubstitutionEncode(m) ==
    Replace(Replace(Replace(m, ".", "X"), "-", "."), "X", "-")

\* SubstitutionCipher.decode
SubstitutionDecode(m) == SubstitutionEncode(m)

StageEncode(enc, data) ==
    IF enc = "MorseEncoder" THEN MorseEncode(data) ELSE SubstitutionEncode(data)

StageDecode(enc, data) ==
    IF enc = "MorseEncoder" THEN MorseDecode(data) ELSE SubstitutionDecode(data)

\* EncoderChain.add_encoder
AddEncoder(encs, enc) == Append(encs, enc)

\* EncoderChain.encode
RECURSIVE ChainEncode(_, _)
ChainEncode(encs, data) ==
    IF encs = <<>> THEN data
    ELSE ChainEncode(Tail(encs), StageEncode(Head(encs), data))

\* EncoderChain.decode iterating the stages in insertion order
RECURSIVE ChainDecodeInOrder(_, _)
ChainDecodeInOrder(encs, data) ==
    IF encs = <<>> THEN data
    ELSE ChainDecodeInOrder(Tail(encs), StageDecode(Head(encs), data))

\* EncoderChain.decode: the stages' decode, last stage first
RECURSIVE ChainDecode(_, _)
ChainDecode(encs, data) ==
    IF encs = <<>> THEN data
    ELSE ChainDecode(SubSeq(encs, 1, Len(encs) - 1),
                     StageDecode(encs[Len(encs)], data))

----------------------------------------------------------------------------
(* Waveform synthesis *)

SampleRate == 44100

LeadSilenceMs == 3000

DefaultDotDuration == 100

\* generate_tone(duration): int(44100 * duration / 1000) samples at 44100 Hz.
\* The sample values (frequency, 50% amplitude, 16-bit quantization) are not
\* part of the model.
generate_tone(duration) ==
    [kind |-> "tone", frames |-> (SampleRate * duration) \div 1000, ms |-> 0]

\* silence(ms) = AudioSegment.silent(duration=ms): ms milliseconds of silence
silence(ms) == [kind |-> "silence", frames |-> 0, ms |-> ms]

\* The segments one symbol of the loop of generate_morse_audio appends
SymbolAudio(symbol, dot_duration) ==
    CASE symbol = "." -> <<generate_tone(dot_duration), silence(dot_duration)>>
      [] symbol = "-" -> <<generate_tone(dot_duration * 3), silence(dot_duration)>>
      [] symbol = " " -> <<silence(dot_duration * 2)>>
      [] symbol = "/" -> <<silence(dot_duration * 6)>>
      [] OTHER -> <<>>

\* generate_morse_audio without the closing 3 seconds of silence
generate_morse_audio_NoLeadOut(m, dot_duration) ==
    <<silence(LeadSilenceMs)>>
        \o Concat([i \in 1..Len(m) |-> SymbolAudio(m[i], dot_duration)])

\* generate_morse_audio with a dash as long as a dot
generate_morse_audio_ShortDash(m, dot_duration) ==
    <<silence(LeadSilenceMs)>>
        \o Concat([i \in 1..Len(m) |->
                     SymbolAudio(IF m[i] = "-" THEN "." ELSE m[i], dot_duration)])
        \o <<silence(LeadSilenceMs)>>

\* generate_morse_audio(morse, freq, dot_duration)
generate_morse_audio(m, dot_duration) ==
    <<silence(LeadSilenceMs)>>
        \o Concat([i \in 1..Len(m) |-> SymbolAudio(m[i], dot_duration)])
        \o <<silence(LeadSilenceMs)>>

\* Duration of an AudioSegment, in milliseconds times SampleRate (a tone of n
\* frames lasts n * 1000 / SampleRate ms)
RECURSIVE ScaledDuration(_)
ScaledDuration(a) ==
    IF a = <<>> THEN 0
    ELSE (IF Head(a).kind = "tone" THEN Head(a).frames * 1000
                                   ELSE Head(a).ms * SampleRate)
         + ScaledDuration(Tail(a))

\* For each tone of the buffer but the last, the milliseconds of silence
\* between its end and the start of the next tone
RECURSIVE GapsFrom(_, _, _)
GapsFrom(a, seenTone, acc) ==
    IF a = <<>> THEN <<>>
    ELSE IF Head(a).kind = "tone"
         THEN (IF seenTone THEN <<acc>> ELSE <<>>) \o GapsFrom(Tail(a), TRUE, 0)
         ELSE GapsFrom(Tail(a), seenTone, acc + Head(a).ms)

ToneGaps(a) == GapsFrom(a, FALSE, 0)

Tones(a) == SelectSeq(a, LAMBDA g : g.kind = "tone")

Count(s, c) == Len(SelectSeq(s, LAMBDA x : x = c))

----------------------------------------------------------------------------
(* Configuration, environment and inputs of a run *)

Running == -1

NoException == "none"

EmptyDict == [k \in {} |-> ""]

ConfigKeys == {"encryption", "output_format", "dot_duration"}

\* The config.json contents of the model: every subset of the keys, with
\* these values
ConfigDicts ==
    {[k \in K |-> CASE k = "encryption" -> e
                    [] k = "output_format" -> f
                    [] OTHER -> d] :
        K \in SUBSET ConfigKeys,
        e \in {"substitution", "rot13"},
        f \in {"wav", "xyz"},
        d \in {1, 48}}

\* What is at the --config path: nothing, text that is not JSON, a file that
\* cannot be opened, JSON that is a list, JSON that is an object
ConfigFiles ==
    {[kind |-> k, value |-> EmptyDict] :
        k \in {"missing", "invalid_json", "unreadable", "list"}}
    \cup {[kind |-> "dict", value |-> v] : v \in ConfigDicts}

\* config.get(key, default)
ConfigGet(cfg, key, default) == IF key \in DOMAIN cfg THEN cfg[key] ELSE default

\* Formats the codec backend can encode
SupportedFormats == {"mp3", "wav"}

\* AudioSegment.export(filename, format=format), as save_audio sees it: it
\* returns, or it raises.  pydub opens the output path for writing before it
\* runs the encoder, so a failed export leaves the file untouched (the path
\* could not be opened) or truncated (the encoder failed afterwards).
ExportOutcomes(format) ==
    IF format \in SupportedFormats
    THEN {"written", "raised_untouched", "raised_truncated"}
    ELSE {"raised_untouched", "raised_truncated"}

RunAlphabet == {"e", "T", " ", "!"}

RunTexts == SeqsUpTo(RunAlphabet, MaxRunTextLen)

----------------------------------------------------------------------------
(* main() *)

Exit(status, messages) ==
    /\ stdout' = stdout \o messages
    /\ exitStatus' = status
    /\ pc' = "exited"

Raise(exception) ==
    /\ unhandled' = exception
    /\ exitStatus' = 1
    /\ pc' = "exited"
    /\ UNCHANGED stdout

\* config = load_config(args.config)
LoadConfig ==
    /\ pc = "load_config"
    /\ CASE configFile.kind = "missing" ->
              /\ Exit(1, <<"Configuration file not found",
                           "Create a config.json or pass --config">>)
              /\ UNCHANGED <<config, unhandled>>
         [] configFile.kind = "invalid_json" ->
              /\ Exit(1, <<"Configuration file is not valid JSON">>)
              /\ UNCHANGED <<config, unhandled>>
         [] configFile.kind = "unreadable" ->
              /\ Raise("PermissionError")
              /\ UNCHANGED config
         [] OTHER ->
              /\ config' = configFile.value
              /\ pc' = "report_config"
              /\ UNCHANGED <<stdout, exitStatus, unhandled>>
    /\ UNCHANGED <<configFile, argText, text, encoders, morse, decoded, audio,
                   outFile>>

\* print(f"Loaded config: ... {config.get('freq')} ..."); out_filename = ...
ReportConfig ==
    /\ pc = "report_config"
    /\ IF configFile.kind = "list"
       THEN Raise("AttributeError")
       ELSE /\ stdout' = Append(stdout, "Loaded config")
            /\ pc' = "get_text"
            /\ UNCHANGED <<exitStatus, unhandled>>
    /\ UNCHANGED <<configFile, config, argText, text, encoders, morse, decoded,
                   audio, outFile>>

\* text = args.text if args.text else input(...)
GetText ==
    /\ pc = "get_text"
    /\ IF argText # <<>> /\ argText[1] # <<>>
       THEN /\ text' = argText[1]
            /\ stdout' = Append(stdout, "Using text from CLI")
            /\ pc' = "set_up_chain"
            /\ UNCHANGED <<exitStatus, unhandled>>
       ELSE \E read \in {"line", "KeyboardInterrupt", "EOFError"} :
              CASE read = "line" ->
                     /\ text' \in RunTexts
                     /\ pc' = "set_up_chain"
                     /\ UNCHANGED <<stdout, exitStatus, unhandled>>
                [] read = "KeyboardInterrupt" ->
                     /\ Exit(0, <<"Aborted by user.">>)
                     /\ UNCHANGED <<text, unhandled>>
                [] OTHER ->
                     /\ Raise("EOFError")
                     /\ UNCHANGED text
    /\ UNCHANGED <<configFile, config, argText, encoders, morse, decoded, audio,
                   outFile>>

\* chain = EncoderChain(); chain.add_encoder(...)
SetUpChain ==
    /\ pc = "set_up_chain"
    /\ encoders' =
         IF ConfigGet(config, "encryption", "None") = "substitution"
         THEN AddEncoder(AddEncoder(<<>>, "MorseEncoder"), "SubstitutionCipher")
         ELSE AddEncoder(<<>>, "MorseEncoder")
    /\ pc' = "encode"
    /\ UNCHANGED <<configFile, config, argText, text, morse, decoded, audio,
                   outFile, stdout, exitStatus, unhandled>>

\* morse = chain.encode(text)
EncodeText ==
    /\ pc = "encode"
    /\ morse' = ChainEncode(encoders, text)
    /\ stdout' = stdout \o <<"Encoding text to Morse...", "Morse output">>
    /\ pc' = "generate_audio"
    /\ UNCHANGED <<configFile, config, argText, text, encoders, decoded, audio,
                   outFile, exitStatus, unhandled>>

\* audio = generate_morse_audio(morse, config.get("freq", 750),
\*                              config.get("dot_duration", 100))
GenerateAudio ==
    /\ pc = "generate_audio"
    /\ audio' = generate_morse_audio(
                    morse, ConfigGet(config, "dot_duration", DefaultDotDuration))
    /\ stdout' = Append(stdout, "Generating audio")
    /\ pc' = "save_audio"
    /\ UNCHANGED <<configFile, config, argText, text, encoders, morse, decoded,
                   outFile, exitStatus, unhandled>>

\* save_audio(audio, out_filename, format=config.get("output_format", "mp3"))
SaveAudio ==
    /\ pc = "save_audio"
    /\ \E outcome \in ExportOutcomes(ConfigGet(config, "output_format", "mp3")) :
         CASE outcome = "written" ->
                /\ outFile' = [outFile EXCEPT !.now = "audio"]
                /\ stdout' = stdout \o <<"Saving audio", "Saved audio">>
                /\ pc' = "finish"
                /\ UNCHANGED exitStatus
           [] outcome = "raised_untouched" ->
                /\ Exit(1, <<"Saving audio", "Failed to save audio",
                             "Make sure ffmpeg is installed">>)
                /\ UNCHANGED outFile
           [] OTHER ->
                /\ Exit(1, <<"Saving audio", "Failed to save audio",
                             "Make sure ffmpeg is installed">>)
                /\ outFile' = [outFile EXCEPT !.now = "truncated"]
    /\ UNCHANGED <<configFile, config, argText, text, encoders, morse, decoded,
                   audio, unhandled>>

\* print("Done. ..."); main returns
Finish ==
    /\ pc = "finish"
    /\ Exit(0, <<"Done.">>)
    /\ UNCHANGED <<configFile, config, argText, text, encoders, morse, decoded,
                   audio, outFile, unhandled>>

Init ==
    /\ pc = "load_config"
    /\ configFile \in ConfigFiles
    /\ config = EmptyDict
    /\ argText \in {<<>>} \cup {<<t>> : t \in RunTexts}
    /\ text = <<>>
    /\ encoders = <<>>
    /\ morse = <<>>
    /\ decoded = <<>>
    /\ audio = <<>>
    /\ outFile \in {[before |-> b, now |-> b] : b \in {"absent", "previous"}}
    /\ stdout = <<"Morse Converter starting...">>
    /\ exitStatus = Running
    /\ unhandled = NoException

Next ==
    \/ LoadConfig
    \/ ReportConfig
    \/ GetText
    \/ SetUpChain
    \/ EncodeText
    \/ GenerateAudio
    \/ SaveAudio
    \/ Finish

Spec == Init /\ [][Next]_vars

----------------------------------------------------------------------------
(* The encoder chain on its own: any chain the public API builds, any text *)

MaxStages == 2

ChainAlphabet == {"x", "X", "5", " ", "!", ".", "-", "/"}

ChainAdd ==
    /\ pc = "building"
    /\ Len(encoders) < MaxStages
    /\ \E enc \in {"MorseEncoder", "SubstitutionCipher"} :
         encoders' = AddEncoder(encoders, enc)
    /\ UNCHANGED <<pc, configFile, config, argText, text, morse, decoded, audio,
                   outFile, stdout, exitStatus, unhandled>>

ChainDoEncode ==
    /\ pc = "building"
    /\ encoders # <<>>
    /\ morse' = ChainEncode(encoders, text)
    /\ pc' = "encoded"
    /\ UNCHANGED <<configFile, config, argText, text, encoders, decoded, audio,
                   outFile, stdout, exitStatus, unhandled>>

ChainDoDecode ==
    /\ pc = "encoded"
    /\ decoded' = ChainDecode(encoders, morse)
    /\ pc' = "decoded"
    /\ UNCHANGED <<configFile, config, argText, text, encoders, morse, audio,
                   outFile, stdout, exitStatus, unhandled>>

InitChain ==
    /\ pc = "building"
    /\ configFile = [kind |-> "missing", value |-> EmptyDict]
    /\ config = EmptyDict
    /\ argText = <<>>
    /\ text \in SeqsUpTo(ChainAlphabet, MaxTextLen)
    /\ encoders = <<>>
    /\ morse = <<>>
    /\ decoded = <<>>
    /\ audio = <<>>
    /\ outFile = [before |-> "absent", now |-> "absent"]
    /\ stdout = <<>>
    /\ exitStatus = Running
    /\ unhandled = NoException

NextChain == ChainAdd \/ ChainDoEncode \/ ChainDoDecode

SpecChain == InitChain /\ [][NextChain]_vars

----------------------------------------------------------------------------
(* generate_morse_audio on its own: any string, any unit duration *)

SynthAlphabet == {".", "-", " ", "/", "X"}

SynthUnits == {1, 7, 10, 48, 100}

InitSynth ==
    /\ pc = "generate_audio"
    /\ configFile = [kind |-> "missing", value |-> EmptyDict]
    /\ config \in {[k \in {"dot_duration"} |-> u] : u \in SynthUnits}
    /\ argText = <<>>
    /\ text = <<>>
    /\ encoders = <<>>
    /\ morse \in SeqsUpTo(SynthAlphabet, MaxMorseLen)
    /\ decoded = <<>>
    /\ audio = <<>>
    /\ outFile = [before |-> "absent", now |-> "absent"]
    /\ stdout = <<>>
    /\ exitStatus = Running
    /\ unhandled = NoException

NextSynth == GenerateAudio

SpecSynth == InitSynth /\ [][NextSynth]_vars

----------------------------------------------------------------------------
(* Vocabulary of the properties *)

MainChains == {<<"MorseEncoder">>, <<"MorseEncoder", "SubstitutionCipher">>}

\* c is a Codebook character: its uppercase is a key of MORSE_CODE_DICT
InCodebook(c) == Upper(c) \in DOMAIN MORSE_CODE_DICT

UpperText(t) == [i \in 1..Len(t) |-> Upper(t[i])]

\* t uppercased, its characters outside the Codebook removed
FilterUpper(t) == SelectSeq(UpperText(t), LAMBDA c : c \in DOMAIN MORSE_CODE_DICT)

\* t with c inserted after its first i characters
InsertAt(t, i, c) == SubSeq(t, 1, i) \o <<c>> \o SubSeq(t, i + 1, Len(t))

IsMorseString(s) == \A i \in 1..Len(s) : s[i] \in {".", "-", " ", "/"}

Printed(msg) == \E i \in 1..Len(stdout) : stdout[i] = msg

DotDuration == ConfigGet(config, "dot_duration", DefaultDotDuration)

\* Two words of Codebook characters separated by one space
TwoWords(t) ==
    /\ Count(t, " ") = 1
    /\ t[1] # " "
    /\ t[Len(t)] # " "
    /\ \A i \in 1..Len(t) : InCodebook(t[i])

\* The number of tones of the first word of t
RECURSIVE FirstWordTones(_)
FirstWordTones(t) ==
    IF t = <<>> \/ Head(t) = " " THEN 0
    ELSE Len(DictGet(Upper(Head(t)))) + FirstWordTones(Tail(t))

----------------------------------------------------------------------------
(* Properties *)

\* C1: for every text of Codebook characters (letters of either case, digits,
\* spaces, leading, trailing or consecutive spaces included) and for both
\* chains main builds, decode(encode(text)) is the text uppercased.
C1_RoundTrip ==
    (/\ pc = "decoded"
     /\ encoders \in MainChains
     /\ \A i \in 1..Len(text) : InCodebook(text[i]))
    => decoded = UpperText(text)

C1_Witness ==
    /\ pc = "decoded"
    /\ encoders = <<"MorseEncoder", "SubstitutionCipher">>
    /\ text = <<" ", "x", " ", " ">>
    /\ decoded = <<" ", "X", " ", " ">>

\* C2: a character outside the Codebook, inserted anywhere in a text, leaves
\* MorseEncoder.encode of the text unchanged.
C2_UnsupportedAddsNothing ==
    (pc = "encoded" /\ encoders = <<"MorseEncoder">>)
    => \A c \in ChainAlphabet : \A i \in 0..Len(text) :
         ~InCodebook(c) => MorseEncode(InsertAt(text, i, c)) = morse

\* C3: for a text of two words separated by one space, the silence between
\* the last tone of the first word and the first tone of the second is 7
\* units.
C3_WordGapSevenUnits ==
    (Printed("Generating audio") /\ TwoWords(text))
    => ToneGaps(audio)[FirstWordTones(text)] = 7 * DotDuration

\* C4 as stated: the buffer lasts 6000 + 2u d + 4u h + 2u l + 6u w ms, for
\* d dots, h dashes, l spaces and w slashes, other characters adding nothing.
C4_NominalDuration ==
    pc = "save_audio"
    => ScaledDuration(audio) =
         SampleRate * (2 * LeadSilenceMs
                       + Count(morse, ".") * 2 * DotDuration
                       + Count(morse, "-") * 4 * DotDuration
                       + Count(morse, " ") * 2 * DotDuration
                       + Count(morse, "/") * 6 * DotDuration)

\* C4 as amended: the buffer is 6000 + u (d + h) + 2u l + 6u w ms of silence
\* and d tones of floor(44100 u / 1000) and h tones of floor(44100 * 3u / 1000)
\* samples at 44100 Hz, other characters adding nothing; when 44100 u / 1000
\* is whole that is the duration C4 states.
C4_SampleDuration ==
    pc = "save_audio"
    => /\ ScaledDuration(audio) =
            SampleRate * (2 * LeadSilenceMs
                          + (Count(morse, ".") + Count(morse, "-")) * DotDuration
                          + Count(morse, " ") * 2 * DotDuration
                          + Count(morse, "/") * 6 * DotDuration)
            + 1000 * (Count(morse, ".") * ((SampleRate * DotDuration) \div 1000)
                      + Count(morse, "-") * ((SampleRate * 3 * DotDuration) \div 1000))
       /\ (SampleRate * DotDuration) % 1000 = 0
            => ScaledDuration(audio) =
                 SampleRate * (2 * LeadSilenceMs
                               + Count(morse, ".") * 2 * DotDuration
                               + Count(morse, "-") * 4 * DotDuration
                               + Count(morse, " ") * 2 * DotDuration
                               + Count(morse, "/") * 6 * DotDuration)

C4_Witness ==
    /\ pc = "save_audio"
    /\ morse = <<".", "-", "X", "/">>
    /\ DotDuration = 48
    /\ Len(Tones(audio)) = 2

\* C5: on a Morse string the substitution leaves ' ' and '/' in place, turns
\* every '.' into '-' and every '-' into '.', is its own inverse, and decode
\* is the same function as encode.
C5_SubstitutionInvolution ==
    (encoders = <<"SubstitutionCipher">> /\ IsMorseString(text))
    => /\ pc \in {"encoded", "decoded"}
            => /\ Len(morse) = Len(text)
               /\ \A i \in 1..Len(text) :
                    /\ text[i] \in {" ", "/"} => morse[i] = text[i]
                    /\ text[i] = "." => morse[i] = "-"
                    /\ text[i] = "-" => morse[i] = "."
       /\ pc = "decoded"
            => /\ decoded = text
               /\ decoded = SubstitutionEncode(morse)

C5_Witness ==
    /\ pc = "decoded"
    /\ encoders = <<"SubstitutionCipher">>
    /\ text = <<".", "-", " ", "/">>
    /\ morse = <<"-", ".", " ", "/">>
    /\ decoded = text

\* C6: when the export fails the run ends with a reported failure and a
\* non-zero status, the success message is never printed, and the file at
\* the output path is not left truncated: a file that was there keeps its
\* content.
C6_ExportFailureLeavesFile ==
    Printed("Failed to save audio")
    => /\ exitStatus = 1
       /\ ~Printed("Saved audio")
       /\ ~Printed("Done.")
       /\ outFile.now # "truncated"
       /\ outFile.before = "previous" => outFile.now = "previous"

\* C7: every run ends with no exception escaping main: the fatal conditions
\* end it with a message and a non-zero status, an interactive abort with
\* status zero.
C7_NoUnhandledException ==
    pc = "exited"
    => /\ unhandled = NoException
       /\ exitStatus \in {0, 1}
       /\ configFile.kind \in {"missing", "invalid_json", "unreadable", "list"}
            => exitStatus = 1 /\ Len(stdout) > 1
       /\ Printed("Failed to save audio") => exitStatus = 1
       /\ Printed("Aborted by user.") => exitStatus = 0

\* C8: the empty text encodes to the empty Morse string under both chains of
\* main, and the empty Morse string is synthesized as the lead-in and the
\* lead-out silence alone: 6000 ms, no tone.
C8_EmptyInput ==
    /\ (Printed("Morse output") /\ text = <<>>) => morse = <<>>
    /\ (Printed("Generating audio") /\ morse = <<>>)
         => /\ audio = <<silence(LeadSilenceMs), silence(LeadSilenceMs)>>
            /\ ScaledDuration(audio) = SampleRate * 6000
            /\ Tones(audio) = <<>>

C8_Witness ==
    /\ Printed("Generating audio")
    /\ text = <<>>
    /\ encoders = <<"MorseEncoder", "SubstitutionCipher">>
    /\ morse = <<>>
    /\ Len(audio) = 2

\* C9: a chain whose only stage is the substitution returns every string it
\* encoded, whatever its characters.
C9_SubstitutionInvertsAnyString ==
    (pc = "decoded" /\ encoders = <<"SubstitutionCipher">>)
    => decoded = text

\* C10: for every text and both chains main builds, decode(encode(text)) is
\* the text uppercased with the characters outside the Codebook removed, the
\* others (spaces included) in their order.
C10_RoundTripIsFilter ==
    (pc = "decoded" /\ encoders \in MainChains)
    => decoded = FilterUpper(text)

C10_Witness ==
    /\ pc = "decoded"
    /\ encoders = <<"MorseEncoder", "SubstitutionCipher">>
    /\ text = <<"!", "x", " ", "/">>
    /\ decoded = <<"X", " ">>

====
